---- MODULE Spec2Model ----
(***************************************************************************)
(* A model of main.py, the keyword and tag manager: the credential file,   *)
(* the per-user data files, and the Streamlit sessions that read and       *)
(* rewrite them.                                                           *)
(*                                                                         *)
(* Strings the code takes apart (keywords, tag texts, usernames) are       *)
(* sequences of one-character strings, so that strip, split and join are   *)
(* computed as Python computes them.  Passwords are never taken apart and  *)
(* stay plain strings.  Python indexes are 0-based and kept so: entry      *)
(* index i of the code is db[i + 1] here.                                  *)
(*                                                                         *)
(* A handler runs to its end in one step: each browser session runs the    *)
(* script on its own st.session_state, and the steps of different sessions *)
(* interleave.  Left out: the random picker and random_result, which no    *)
(* handler reads, and a users.json or data file that is not valid JSON.    *)
(***************************************************************************)
EXTENDS Integers, Sequences, FiniteSets, TLC

VARIABLES
    users,      \* users.json: username -> password hash
    files,      \* the data files that exist: file name -> list of entries
    sess,       \* st.session_state of each browser session
    last,       \* what the last handler reported (st.error / st.success / st.toast)
    firstPw,    \* history: the password of each username's first successful sign-up
    undo        \* history: the stores as they were before the add now being undone

vars == <<users, files, sess, last, firstPw, undo>>

(***************************************************************************)
(* Bounds of the model.                                                    *)
(***************************************************************************)
MaxDb == 2          \* entries a session's list may hold
MaxRows == 2        \* rows of an uploaded CSV file

(***************************************************************************)
(* Python's list and string operations.                                    *)
(***************************************************************************)
Range(q) == {q[i] : i \in 1..Len(q)}

InList(x, q) == \E i \in 1..Len(q) : q[i] = x

RECURSIVE lstrip(_)
lstrip(str) ==
    IF str # <<>> /\ Head(str) = " " THEN lstrip(Tail(str)) ELSE str

RECURSIVE rstrip(_)
rstrip(str) ==
    IF str # <<>> /\ str[Len(str)] = " "
    THEN rstrip(SubSeq(str, 1, Len(str) - 1))
    ELSE str

\* str.strip()
strip(str) == rstrip(lstrip(str))

\* str.split(sep) for a one-character separator
RECURSIVE split(_, _)
split(str, sep) ==
    IF \E i \in 1..Len(str) : str[i] = sep
    THEN LET i == CHOOSE k \in 1..Len(str) :
                      str[k] = sep /\ \A j \in 1..(k - 1) : str[j] # sep
         IN  <<SubSeq(str, 1, i - 1)>> \o split(SubSeq(str, i + 1, Len(str)), sep)
    ELSE <<str>>

\* sep.join(parts)
RECURSIVE join(_, _)
join(sep, parts) ==
    IF parts = <<>> THEN <<>>
    ELSE IF Len(parts) = 1 THEN parts[1]
    ELSE parts[1] \o sep \o join(sep, Tail(parts))

\* [t.strip() for t in text.split(',') if t.strip()]
parse_tags(text) ==
    LET parts == split(text, ",")
        NonEmpty(t) == t # <<>>
    IN  SelectSeq([i \in 1..Len(parts) |-> strip(parts[i])], NonEmpty)

\* for t in ts: if t not in cur: cur.append(t)
RECURSIVE extend_unique(_, _)
extend_unique(cur, ts) ==
    IF ts = <<>> THEN cur
    ELSE extend_unique(IF InList(Head(ts), cur) THEN cur ELSE Append(cur, Head(ts)),
                       Tail(ts))

\* list.remove(t): the first occurrence only
RECURSIVE list_remove(_, _)
list_remove(q, t) ==
    IF q = <<>> THEN <<>>
    ELSE IF Head(q) = t THEN Tail(q)
    ELSE <<Head(q)>> \o list_remove(Tail(q), t)

\* for t in ts: if t in cur: cur.remove(t)
RECURSIVE remove_each(_, _)
remove_each(cur, ts) ==
    IF ts = <<>> THEN cur
    ELSE remove_each(IF InList(Head(ts), cur) THEN list_remove(cur, Head(ts)) ELSE cur,
                     Tail(ts))

\* list.pop(index), the list that is left
list_pop(q, index) == SubSeq(q, 1, index) \o SubSeq(q, index + 2, Len(q))

(***************************************************************************)
(* Configuration, hashing and the two kinds of file.                       *)
(***************************************************************************)
DATA_PREFIX == <<"d", "a", "t", "a", "_">>

JSON_SUFFIX == <<".", "j", "s", "o", "n">>

\* SHA-256 is taken to be injective: the digest is the password, tagged.
make_hashes(password) == <<"sha256", password>>

check_hashes(password, hashed_text) == make_hashes(password) = hashed_text

\* users[username] = make_hashes(password), then the whole mapping is written
save_user(us, username, password) ==
    [u \in DOMAIN us \cup {username} |->
        IF u = username THEN make_hashes(password) ELSE us[u]]

\* str.isalnum() of one character, over the characters the model uses
isalnum(c) == c \in {"a", "b", "x", "y", "t", "u", "n", "0", "1"}

get_user_data_file(username) ==
    LET Safe(c) == isalnum(c) \/ c \in {"_", "-"}
    IN  DATA_PREFIX \o SelectSeq(username, Safe) \o JSON_SUFFIX

load_data(fs, username) ==
    LET filename == get_user_data_file(username)
    IN  IF filename \in DOMAIN fs THEN fs[filename] ELSE <<>>

\* a save that reads the file again and keeps the entries it finds there
save_data_merged(fs, username, db) ==
    LET filename == get_user_data_file(username)
        old == IF filename \in DOMAIN fs THEN fs[filename] ELSE <<>>
        Missing(e) == ~InList(e, db)
    IN  [f \in DOMAIN fs \cup {filename} |->
            IF f = filename THEN db \o SelectSeq(old, Missing) ELSE fs[f]]

\* json.dump(st.session_state.db, f): the whole file is replaced
save_data(fs, username, db) ==
    LET filename == get_user_data_file(username)
    IN  [f \in DOMAIN fs \cup {filename} |-> IF f = filename THEN db ELSE fs[f]]

(***************************************************************************)
(* Session state.                                                          *)
(***************************************************************************)
NewSession == [logged_in |-> FALSE, username |-> <<>>, db |-> <<>>, all_tags |-> {}]

\* a login that leaves the tag index empty
rebuild_tags_empty(db) == {}

\* the tag index of a freshly loaded list
rebuild_tags(db) == UNION {Range(db[i].Tags) : i \in 1..Len(db)}

login_user(st, us, fs, username, password) ==
    IF username \in DOMAIN us /\ check_hashes(password, us[username])
    THEN [st |-> [logged_in |-> TRUE,
                  username |-> username,
                  db |-> load_data(fs, username),
                  all_tags |-> rebuild_tags(load_data(fs, username))],
          ok |-> TRUE]
    ELSE [st |-> st, ok |-> FALSE]

\* a sign-up that does not look for the username first
register_user_overwrites(us, username, password) ==
    [us |-> save_user(us, username, password), ok |-> TRUE]

register_user(us, username, password) ==
    IF username \in DOMAIN us
    THEN [us |-> us, ok |-> FALSE]
    ELSE [us |-> save_user(us, username, password), ok |-> TRUE]

logout(st) == NewSession

(***************************************************************************)
(* The entry store.  Each handler takes the session state and the files    *)
(* and gives the session state and the files it leaves, and whether it     *)
(* went through (ok) or reported an error or did nothing.                  *)
(***************************************************************************)
\* for tag in new_tags: if tag not in cur: cur.append(tag); all_tags.add(tag)
RECURSIVE extend_indexed(_, _, _)
extend_indexed(cur, all_tags, ts) ==
    IF ts = <<>> THEN [tags |-> cur, all_tags |-> all_tags]
    ELSE IF InList(Head(ts), cur)
         THEN extend_indexed(cur, all_tags, Tail(ts))
         ELSE extend_indexed(Append(cur, Head(ts)), all_tags \cup {Head(ts)}, Tail(ts))

add_entry(st, fs, keyword, selected_tags, new_tags_input) ==
    IF keyword = <<>>
    THEN [st |-> st, fs |-> fs, ok |-> FALSE]
    ELSE LET new_tags == IF new_tags_input # <<>> THEN parse_tags(new_tags_input) ELSE <<>>
             r == extend_indexed(selected_tags, st.all_tags, new_tags)
             entry == [Keyword |-> keyword, Tags |-> r.tags]
             db == Append(st.db, entry)
         IN  [st |-> [st EXCEPT !.db = db, !.all_tags = r.all_tags],
              fs |-> save_data(fs, st.username, db),
              ok |-> TRUE]

update_entry(st, fs, index, tags_to_add, new_tags_text, tags_to_remove) ==
    IF 0 <= index /\ index < Len(st.db)
    THEN LET current_tags == st.db[index + 1].Tags
             new_tags == IF new_tags_text # <<>> THEN parse_tags(new_tags_text) ELSE <<>>
             r == extend_indexed(current_tags, st.all_tags, new_tags)
             added == extend_unique(r.tags, tags_to_add)
             kept == remove_each(added, tags_to_remove)
             db == [st.db EXCEPT ![index + 1].Tags = kept]
         IN  [st |-> [st EXCEPT !.db = db, !.all_tags = r.all_tags],
              fs |-> save_data(fs, st.username, db),
              ok |-> TRUE]
    ELSE [st |-> st, fs |-> fs, ok |-> FALSE]

\* a delete that pops the first entry whatever the index
delete_entry_first(st, fs, index) ==
    IF 0 <= index /\ index < Len(st.db)
    THEN LET db == list_pop(st.db, 0)
         IN  [st |-> [st EXCEPT !.db = db],
              fs |-> save_data(fs, st.username, db),
              ok |-> TRUE]
    ELSE [st |-> st, fs |-> fs, ok |-> FALSE]

delete_entry(st, fs, index) ==
    IF 0 <= index /\ index < Len(st.db)
    THEN LET db == list_pop(st.db, index)
         IN  [st |-> [st EXCEPT !.db = db],
              fs |-> save_data(fs, st.username, db),
              ok |-> TRUE]
    ELSE [st |-> st, fs |-> fs, ok |-> FALSE]

(***************************************************************************)
(* CSV export and import.  A CSV file is its header (the set of column     *)
(* names) and its rows of text fields; to_csv quotes a field that holds a  *)
(* comma or a quote and read_csv undoes the quoting, so the fields survive *)
(* the file as they are.  What read_csv changes is modelled: a field that  *)
(* is one of pandas' missing-value words comes back as NaN.                *)
(***************************************************************************)
EmptyFile == [empty |-> TRUE, columns |-> {}, rows |-> <<>>]

NaN == <<"float('nan')">>

\* read_csv's default na_values that the model's characters can spell
NaWords == {<<>>, <<"n", "a", "n">>}

\* str(value) of a cell
str(cell) == IF cell = NaN THEN <<"n", "a", "n">> ELSE cell

notna(cell) == cell # NaN

convert_db_to_csv(db) ==
    IF db = <<>> THEN EmptyFile
    ELSE [empty |-> FALSE,
          columns |-> {"Keyword", "Tags"},
          rows |-> [i \in 1..Len(db) |->
                      [Keyword |-> db[i].Keyword,
                       Tags |-> join(<<",", " ">>, db[i].Tags)]]]

\* pd.read_csv: an empty file raises EmptyDataError
read_csv(file) ==
    LET Cell(field) == IF field \in NaWords THEN NaN ELSE field
    IN  [raised |-> file.empty,
         columns |-> file.columns,
         rows |-> [i \in 1..Len(file.rows) |->
                     [Keyword |-> Cell(file.rows[i].Keyword),
                      Tags |-> Cell(file.rows[i].Tags)]]]

\* {entry['Keyword']: i for i, entry in enumerate(db)}: a later entry with the
\* same keyword replaces an earlier one
existing_map(db) ==
    [kw \in {db[i].Keyword : i \in 1..Len(db)} |->
        (CHOOSE i \in 1..Len(db) :
            db[i].Keyword = kw /\ \A j \in (i + 1)..Len(db) : db[j].Keyword # kw) - 1]

\* the body of the loop over the rows, for one row
import_row(acc, columns, row) ==
    LET kw == strip(str(row.Keyword))
        tags_str == IF "Tags" \in columns /\ notna(row.Tags) THEN str(row.Tags) ELSE <<>>
        new_tags == parse_tags(tags_str)
        all_tags == acc.all_tags \cup Range(new_tags)
    IN  IF kw = <<>> THEN acc
        ELSE IF kw \in DOMAIN acc.map
        THEN LET idx == acc.map[kw]
             IN  [acc EXCEPT !.all_tags = all_tags,
                             !.db[idx + 1].Tags = extend_unique(@, new_tags),
                             !.updated_count = @ + 1]
        ELSE [acc EXCEPT !.all_tags = all_tags,
                         !.db = Append(@, [Keyword |-> kw, Tags |-> new_tags]),
                         !.map = [k \in DOMAIN acc.map \cup {kw} |->
                                     IF k = kw THEN Len(acc.db) ELSE acc.map[k]],
                         !.added_count = @ + 1]

\* the loop.  raise_at is the row (from 1) at which the loop body raises, 0 for
\* none: the try block catches whatever a row raises (a KeyError from
\* db[idx]['Tags'] on a stored entry without tags, which login_user's
\* entry.get('Tags', []) allows for, is one), and the rows before it are merged
RECURSIVE import_rows(_, _, _, _, _)
import_rows(acc, columns, rows, i, raise_at) ==
    IF i > Len(rows) THEN acc
    ELSE IF i = raise_at THEN [acc EXCEPT !.raised = TRUE]
    ELSE import_rows(import_row(acc, columns, rows[i]), columns, rows, i + 1, raise_at)

\* an import that saves what it has merged when a row raises
finish_import_saving(st, fs, acc) ==
    [st |-> [st EXCEPT !.db = acc.db, !.all_tags = acc.all_tags],
     fs |-> save_data(fs, st.username, acc.db),
     ok |-> ~acc.raised,
     added_count |-> IF acc.raised THEN 0 ELSE acc.added_count,
     updated_count |-> IF acc.raised THEN 0 ELSE acc.updated_count]

\* the end of the try block: save_data and the counts are reached only when no
\* row raised; the rows merged before the exception stay in the session
finish_import(st, fs, acc) ==
    LET mem == [st EXCEPT !.db = acc.db, !.all_tags = acc.all_tags]
    IN  IF acc.raised
        THEN [st |-> mem, fs |-> fs, ok |-> FALSE,
              added_count |-> 0, updated_count |-> 0]
        ELSE [st |-> mem, fs |-> save_data(fs, st.username, acc.db), ok |-> TRUE,
              added_count |-> acc.added_count,
              updated_count |-> acc.updated_count]

process_csv_upload(st, fs, uploaded_file, raise_at) ==
    LET df == read_csv(uploaded_file)
        none == [st |-> st, fs |-> fs, ok |-> FALSE, added_count |-> 0, updated_count |-> 0]
    IN  IF df.raised THEN none
        ELSE IF "Keyword" \notin df.columns THEN none
        ELSE finish_import(st, fs,
                           import_rows([db |-> st.db, all_tags |-> st.all_tags,
                                        map |-> existing_map(st.db),
                                        added_count |-> 0, updated_count |-> 0,
                                        raised |-> FALSE],
                                       df.columns, df.rows, 1, raise_at))

(***************************************************************************)
(* The handlers as the pages call them.  login_page is shown to a session  *)
(* that is not logged in, main_app to one that is.                         *)
(***************************************************************************)
Sessions == {1, 2}

Report(op, s, ok, added_count, updated_count) ==
    [op |-> op, s |-> s, ok |-> ok,
     added_count |-> added_count, updated_count |-> updated_count]

NoUndo == [phase |-> "none"]

Init ==
    /\ users = <<>>
    /\ files = <<>>
    /\ sess = [s \in Sessions |-> NewSession]
    /\ last = Report("start", 0, TRUE, 0, 0)
    /\ firstPw = <<>>
    /\ undo = NoUndo

\* the sign-up form: register_user is called when both fields are filled
Register(s, username, password) ==
    /\ ~sess[s].logged_in
    /\ LET r == IF username # <<>> /\ password # ""
                THEN register_user(users, username, password)
                ELSE [us |-> users, ok |-> FALSE]
       IN  /\ users' = r.us
           /\ firstPw' = IF r.ok /\ username \notin DOMAIN firstPw
                         THEN [u \in DOMAIN firstPw \cup {username} |->
                                  IF u = username THEN password ELSE firstPw[u]]
                         ELSE firstPw
           /\ last' = Report("register", s, r.ok, 0, 0)
    /\ undo' = NoUndo
    /\ UNCHANGED <<files, sess>>

Login(s, username, password) ==
    /\ ~sess[s].logged_in
    /\ LET r == login_user(sess[s], users, files, username, password)
       IN  /\ sess' = [sess EXCEPT ![s] = r.st]
           /\ last' = Report("login", s, r.ok, 0, 0)
    /\ undo' = NoUndo
    /\ UNCHANGED <<users, files, firstPw>>

Logout(s) ==
    /\ sess[s].logged_in
    /\ sess' = [sess EXCEPT ![s] = logout(sess[s])]
    /\ last' = Report("logout", s, TRUE, 0, 0)
    /\ undo' = NoUndo
    /\ UNCHANGED <<users, files, firstPw>>

\* the selections a multiselect over the options can return: no option twice
Selections(options) ==
    {q \in UNION {[1..n -> options] : n \in 0..Cardinality(options)} :
        \A i, j \in 1..Len(q) : i # j => q[i] # q[j]}

\* the add form: the "Existing Tags" multiselect offers sorted(all_tags)
Add(s, keyword, selected_tags, new_tags_input) ==
    /\ sess[s].logged_in
    /\ Len(sess[s].db) < MaxDb
    /\ selected_tags \in Selections(sess[s].all_tags)
    /\ LET r == add_entry(sess[s], files, keyword, selected_tags, new_tags_input)
       IN  /\ sess' = [sess EXCEPT ![s] = r.st]
           /\ files' = r.fs
           /\ last' = Report("add", s, r.ok, 0, 0)
           /\ undo' = IF r.ok
                      THEN [phase |-> "added", s |-> s, db |-> sess[s].db,
                            file |-> load_data(files, sess[s].username),
                            tags |-> Range(r.st.db[Len(r.st.db)].Tags)]
                      ELSE NoUndo
    /\ UNCHANGED <<users, firstPw>>

\* the edit box: "Pick tags" offers the index's tags the entry lacks, "Select
\* tags to remove" the entry's own; the selectbox offers range(len(db)), and
\* index len(db) stands for a call with an index out of range
Update(s, index, tags_to_add, new_tags_text, tags_to_remove) ==
    /\ sess[s].logged_in
    /\ index \in 0..Len(sess[s].db)
    /\ IF index < Len(sess[s].db)
       THEN /\ tags_to_add \in
                   Selections(sess[s].all_tags \ Range(sess[s].db[index + 1].Tags))
            /\ tags_to_remove \in Selections(Range(sess[s].db[index + 1].Tags))
       ELSE tags_to_add = <<>> /\ tags_to_remove = <<>>
    /\ LET r == update_entry(sess[s], files, index, tags_to_add, new_tags_text,
                             tags_to_remove)
       IN  /\ sess' = [sess EXCEPT ![s] = r.st]
           /\ files' = r.fs
           /\ last' = Report("update", s, r.ok, 0, 0)
    /\ undo' = NoUndo
    /\ UNCHANGED <<users, firstPw>>

Delete(s, index) ==
    /\ sess[s].logged_in
    /\ index \in 0..Len(sess[s].db)
    /\ LET r == delete_entry(sess[s], files, index)
       IN  /\ sess' = [sess EXCEPT ![s] = r.st]
           /\ files' = r.fs
           /\ last' = Report("delete", s, r.ok, 0, 0)
           /\ undo' = IF r.ok /\ undo.phase = "added" /\ undo.s = s
                         /\ index = Len(sess[s].db) - 1
                      THEN [undo EXCEPT !.phase = "deleted"]
                      ELSE NoUndo
    /\ UNCHANGED <<users, firstPw>>

Import(s, uploaded_file, raise_at) ==
    /\ sess[s].logged_in
    /\ raise_at \in 0..Len(uploaded_file.rows)
    /\ LET r == process_csv_upload(sess[s], files, uploaded_file, raise_at)
       IN  /\ Len(r.st.db) <= MaxDb
           /\ sess' = [sess EXCEPT ![s] = r.st]
           /\ files' = r.fs
           /\ last' = Report("import", s, r.ok, r.added_count, r.updated_count)
    /\ undo' = NoUndo
    /\ UNCHANGED <<users, firstPw>>

\* the download button's file, uploaded again as it is
ExportImport(s) ==
    /\ sess[s].logged_in
    /\ LET r == process_csv_upload(sess[s], files, convert_db_to_csv(sess[s].db), 0)
       IN  /\ Len(r.st.db) <= MaxDb
           /\ sess' = [sess EXCEPT ![s] = r.st]
           /\ files' = r.fs
           /\ last' = Report("roundtrip", s, r.ok, r.added_count, r.updated_count)
    /\ undo' = NoUndo
    /\ UNCHANGED <<users, firstPw>>

(***************************************************************************)
(* The inputs.                                                             *)
(***************************************************************************)
UserA == <<"a">>
UserADot == <<"a", ".">>
UserB == <<"b">>

Keywords == {<<>>, <<"x">>, <<" ", "x">>}

TagTexts == {<<>>, <<"t">>, <<"u", ",", "t">>, <<" ", "t", " ", ",", ",", "t">>}

\* rows of an uploaded file: a plain row, a keyword with a leading blank and a
\* repeated tag, a blank keyword, and an empty Tags field
CsvRows ==
    {[Keyword |-> <<"x">>, Tags |-> <<"t", ",", " ", "u">>],
     [Keyword |-> <<" ", "x">>, Tags |-> <<"t", ",", " ", "t">>],
     [Keyword |-> <<" ">>, Tags |-> <<"u">>],
     [Keyword |-> <<"x">>, Tags |-> <<>>]}

RowsOver(R) == UNION {[1..n -> R] : n \in 0..MaxRows}

CsvFiles ==
    {[empty |-> FALSE, columns |-> {"Keyword", "Tags"}, rows |-> rows] :
        rows \in RowsOver(CsvRows)}
    \cup {[empty |-> FALSE, columns |-> {"Keyword"},
           rows |-> <<[Keyword |-> <<"x">>, Tags |-> <<>>]>>],
          [empty |-> FALSE, columns |-> {"Tags"},
           rows |-> <<[Keyword |-> <<>>, Tags |-> <<"t">>]>>],
          EmptyFile}

(***************************************************************************)
(* One session of one account.                                             *)
(***************************************************************************)
DoRegister == \E p \in {"p", ""} : Register(1, UserA, p)

DoLogin == \E p \in {"p", "q"} : Login(1, UserA, p)

DoLogout == Logout(1)

DoAdd ==
    \E keyword \in Keywords, new_tags_input \in TagTexts :
        \E selected_tags \in Selections(sess[1].all_tags) :
            Add(1, keyword, selected_tags, new_tags_input)

DoUpdate ==
    \E index \in 0..MaxDb, new_tags_text \in TagTexts :
        \E tags_to_add, tags_to_remove \in Selections(sess[1].all_tags) :
            Update(1, index, tags_to_add, new_tags_text, tags_to_remove)

DoDelete == \E index \in 0..MaxDb : Delete(1, index)

DoImport ==
    \E uploaded_file \in CsvFiles, raise_at \in 0..MaxRows :
        Import(1, uploaded_file, raise_at)

DoExportImport == ExportImport(1)

Next ==
    \/ DoRegister
    \/ DoLogin
    \/ DoLogout
    \/ DoAdd
    \/ DoUpdate
    \/ DoDelete
    \/ DoImport
    \/ DoExportImport

Spec == Init /\ [][Next]_vars

(***************************************************************************)
(* Properties of the entry store, checked under Spec.                      *)
(***************************************************************************)
AllTags == {<<"t">>, <<"u">>}

NoRepeat(q) == \A i, j \in 1..Len(q) : i # j => q[i] # q[j]

Mutations == {"add", "update", "delete", "import", "roundtrip"}

KeywordsOf(db) == {db[i].Keyword : i \in 1..Len(db)}

\* C2: in every reachable state no entry, in a session or in a file, holds a
\* tag twice.
C2_NoDuplicateTags ==
    /\ \A s \in Sessions : \A i \in 1..Len(sess[s].db) : NoRepeat(sess[s].db[i].Tags)
    /\ \A f \in DOMAIN files : \A i \in 1..Len(files[f]) : NoRepeat(files[f][i].Tags)

\* C3: while a session is logged in, every tag of every entry of its list is in
\* its tag index.
C3_EntryTagsIndexed ==
    \A s \in Sessions :
        sess[s].logged_in =>
            \A i \in 1..Len(sess[s].db) : Range(sess[s].db[i].Tags) \subseteq sess[s].all_tags

\* an add went through whose entry took the indexed tag t from the multiselect
\* and the new tag u from the text, next to an older entry
C3_Witness ==
    /\ last.op = "add" /\ last.ok
    /\ Len(sess[1].db) = 2
    /\ sess[1].db[2].Tags = <<<<"t">>, <<"u">>>>
    /\ sess[1].db[1].Tags # <<>>

\* the keyword import gives a row
RowKeyword(row) == strip(str(IF row.Keyword \in NaWords THEN NaN ELSE row.Keyword))

\* the tags import reads from a row of a file with a Tags column
RowTags(row) == IF row.Tags \in NaWords THEN <<>> ELSE parse_tags(row.Tags)

\* C4: an import of two rows with the same keyword, new to the store, leaves one
\* entry for it, holding the rows' tags in order without repeats, and reports one
\* entry added and none updated.
C4_RepeatedKeywordCountsOnce ==
    [][\A f \in CsvFiles :
          (/\ Import(1, f, 0)
           /\ f.columns = {"Keyword", "Tags"}
           /\ Len(f.rows) = 2
           /\ RowKeyword(f.rows[1]) # <<>>
           /\ RowKeyword(f.rows[1]) = RowKeyword(f.rows[2])
           /\ RowKeyword(f.rows[1]) \notin KeywordsOf(sess[1].db))
          => /\ Len(sess'[1].db) = Len(sess[1].db) + 1
             /\ sess'[1].db[Len(sess'[1].db)] =
                   [Keyword |-> RowKeyword(f.rows[1]),
                    Tags |-> extend_unique(<<>>, RowTags(f.rows[1]) \o RowTags(f.rows[2]))]
             /\ last'.added_count = 1
             /\ last'.updated_count = 0]_vars

PairsOf(db) == {<<db[i].Keyword, Range(db[i].Tags)>> : i \in 1..Len(db)}

UniqueKeywords(db) == \A i, j \in 1..Len(db) : i # j => db[i].Keyword # db[j].Keyword

\* C5: exporting and importing the export leaves an empty store as it is, and a
\* store of distinct keywords with as many entries and the same pairs of keyword
\* and tag set as before.
C5_ExportImportRoundTrip ==
    [][ExportImport(1) =>
          /\ sess[1].db = <<>> => (sess'[1].db = <<>> /\ files' = files)
          /\ (sess[1].db # <<>> /\ UniqueKeywords(sess[1].db)) =>
                /\ Len(sess'[1].db) = Len(sess[1].db)
                /\ PairsOf(sess'[1].db) = PairsOf(sess[1].db)]_vars

Without(q, ts) == LET Kept(t) == ~InList(t, ts) IN SelectSeq(q, Kept)

\* C6: update adds before it removes: the entry is left with its old tags, then
\* the added tags it lacked, in order, without any tag that was to be removed;
\* with an index out of range nothing changes.
C6_UpdateAddsThenRemoves ==
    [][\A index \in 0..MaxDb, text \in TagTexts :
          \A add, rem \in Selections(AllTags) :
              Update(1, index, add, text, rem) =>
                  IF index < Len(sess[1].db)
                  THEN sess'[1].db =
                          [sess[1].db EXCEPT ![index + 1].Tags =
                              Without(extend_unique(@, parse_tags(text) \o add), rem)]
                  ELSE sess' = sess /\ files' = files]_vars

\* C7: a handler that reports an error or does nothing leaves the credential
\* file and every data file as they were.
C7_FailureKeepsFiles ==
    [][~last'.ok => (files' = files /\ users' = users)]_vars

\* an import that raised after it had merged a row: the session's list is no
\* longer the file's
C7_Witness ==
    /\ last.op = "import" /\ ~last.ok
    /\ sess[1].logged_in
    /\ sess[1].db # load_data(files, sess[1].username)

(***************************************************************************)
(* Sign-up and login alone: two sessions, three usernames, two passwords.  *)
(***************************************************************************)
AuthUsernames == {UserA, UserADot, UserB}

AuthPasswords == {"p", "q"}

AuthRegister ==
    \E s \in Sessions, username \in AuthUsernames, password \in AuthPasswords :
        Register(s, username, password)

AuthLogin ==
    \E s \in Sessions, username \in AuthUsernames, password \in AuthPasswords :
        Login(s, username, password)

AuthLogout == \E s \in Sessions : Logout(s)

NextAuth ==
    \/ AuthRegister
    \/ AuthLogin
    \/ AuthLogout

SpecAuth == Init /\ [][NextAuth]_vars

\* C1: authenticate(u, p) succeeds exactly when u has signed up and p is the
\* password of u's first successful sign-up; so a later sign-up under the same
\* name changes nothing, and no other password gets in.
C1_AuthenticateIffFirstPassword ==
    \A username \in AuthUsernames, password \in AuthPasswords :
        login_user(NewSession, users, files, username, password).ok
            <=> (username \in DOMAIN firstPw /\ firstPw[username] = password)

\* session 1 is logged in as "a" with the first password "p", and the last thing
\* that happened is session 2's sign-up failing while all three names are taken
C1_Witness ==
    /\ sess[1].logged_in /\ sess[1].username = UserA
    /\ firstPw = [u \in AuthUsernames |-> IF u = UserA THEN "p" ELSE "q"]
    /\ last.op = "register" /\ last.s = 2 /\ ~last.ok

(***************************************************************************)
(* Two sessions of one account.  Session 1 adds keyword x and session 2    *)
(* keyword y, so that an entry tells which session added it.               *)
(***************************************************************************)
ConcKeyword(s) == IF s = 1 THEN <<"x">> ELSE <<"y">>

ConcFile(s) ==
    [empty |-> FALSE, columns |-> {"Keyword", "Tags"},
     rows |-> <<[Keyword |-> ConcKeyword(s), Tags |-> <<"t">>]>>]

ConcRegister == Register(1, UserA, "p")

ConcLogin == \E s \in Sessions : Login(s, UserA, "p")

ConcLogout == \E s \in Sessions : Logout(s)

ConcAdd ==
    \E s \in Sessions, new_tags_input \in {<<>>, <<"t">>} :
        \E selected_tags \in Selections(sess[s].all_tags) :
            Add(s, ConcKeyword(s), selected_tags, new_tags_input)

ConcUpdate ==
    \E s \in Sessions, index \in 0..MaxDb :
        \E tags_to_add, tags_to_remove \in Selections(sess[s].all_tags) :
            Update(s, index, tags_to_add, <<>>, tags_to_remove)

ConcDelete == \E s \in Sessions, index \in 0..MaxDb : Delete(s, index)

ConcImport == \E s \in Sessions : Import(s, ConcFile(s), 0)

NextConc ==
    \/ ConcRegister
    \/ ConcLogin
    \/ ConcLogout
    \/ ConcAdd
    \/ ConcUpdate
    \/ ConcDelete
    \/ ConcImport

SpecConc == Init /\ [][NextConc]_vars

\* the tag index of a session that stays logged in never loses a tag
IndexNeverShrinks ==
    \A s \in Sessions :
        (sess[s].logged_in /\ sess'[s].logged_in) =>
            sess[s].all_tags \subseteq sess'[s].all_tags

\* C8 as claimed: a delete of the entry just added leaves the session's list
\* and the file's list as they were before the add, with the add's tags still
\* indexed, and the index never shrinks.
C8_AddDeleteRestoresBoth ==
    /\ [](undo.phase = "deleted" =>
            /\ sess[undo.s].db = undo.db
            /\ load_data(files, sess[undo.s].username) = undo.file
            /\ undo.tags \subseteq sess[undo.s].all_tags)
    /\ [][IndexNeverShrinks]_vars

\* C8 as amended: a delete of the entry just added leaves the session's list as
\* it was before the add and the file's list equal to it (so the file is as it
\* was before the add when it then held the session's list), with the add's tags
\* still indexed, and the index never shrinks.
C8_AddDeleteRestoresSession ==
    /\ [](undo.phase = "deleted" =>
            /\ sess[undo.s].db = undo.db
            /\ load_data(files, sess[undo.s].username) = undo.db
            /\ undo.tags \subseteq sess[undo.s].all_tags)
    /\ [][IndexNeverShrinks]_vars

\* session 1 has added an entry with a tag and deleted it again, over a list of
\* its own that held an entry already
C8_Witness ==
    /\ undo.phase = "deleted" /\ undo.s = 1
    /\ undo.tags # {}
    /\ undo.db # <<>>

\* C9: a mutation that goes through leaves the account's file holding the
\* mutating session's own list, whatever the file held before: nothing is read
\* again or locked before the write.
C9_LastWriterWins ==
    (last.op \in Mutations /\ last.ok) =>
        load_data(files, sess[last.s].username) = sess[last.s].db

\* the lost update: session 1 holds the x entry it added (and saved), session
\* 2's mutation was the last write, and the file holds no x entry
C9_Witness ==
    /\ sess[1].logged_in /\ sess[2].logged_in
    /\ sess[1].username = sess[2].username
    /\ <<"x">> \in KeywordsOf(sess[1].db)
    /\ last.op \in Mutations /\ last.ok /\ last.s = 2
    /\ <<"x">> \notin KeywordsOf(load_data(files, sess[1].username))

(***************************************************************************)
(* One session and three accounts, two of whose names differ only in a     *)
(* character the file name drops.                                          *)
(***************************************************************************)
IsoRegister == \E username \in AuthUsernames : Register(1, username, "p")

IsoLogin == \E username \in AuthUsernames : Login(1, username, "p")

IsoLogout == Logout(1)

IsoAdd ==
    \E new_tags_input \in {<<>>, <<"t">>} :
        \E selected_tags \in Selections(sess[1].all_tags) :
            Add(1, <<"x">>, selected_tags, new_tags_input)

IsoDelete == \E index \in 0..MaxDb : Delete(1, index)

NextIso ==
    \/ IsoRegister
    \/ IsoLogin
    \/ IsoLogout
    \/ IsoAdd
    \/ IsoDelete

SpecIso == Init /\ [][NextIso]_vars

\* C10: nothing a session logged in as u does changes the list a login as
\* another registered username v would load.
C10_StoresIsolated ==
    [][\A u, v \in DOMAIN users :
          (u # v /\ sess[1].logged_in /\ sess[1].username = u /\ last'.op \in Mutations)
              => load_data(files', v) = load_data(files, v)]_vars

====
